---------------------------- MODULE Spec2Model ----------------------------
(***************************************************************************)
(* QuantumDice training planner (src/DZIEN_2/fuzzylogic_quantum.py).       *)
(*                                                                         *)
(* Numbers.  The program computes with Python floats.  Here every real     *)
(* quantity is an exact rational over the common denominator UDen, kept as *)
(* a pair <<w, f>> that stands for  w + f/UDen  with 0 <= f < UDen, so     *)
(* that no intermediate value leaves the 32-bit integers of the checker.   *)
(* Inputs are carried in fixed units:                                      *)
(*   fatigue, soreness, pain, sleep_hours, stress   halves   (9 is 4.5)    *)
(*   base_benefit                                   tenths   (26 is 2.6)   *)
(*   base_risk, risk_aversion                       twentieths (27 is 1.35)*)
(*   temperature, exploration                       hundredths (65 is 0.65)*)
(* Dates are day numbers; an Optional value is <<>> (None) or <<v>>.       *)
(***************************************************************************)
EXTENDS Integers, Sequences, FiniteSets, TLC

VARIABLES
    pc,         \* position of the caller: "idle", "loop", "done"
    cfg,        \* QuantumDiceConfig of the run
    start_date, \* simulate_week argument
    states,     \* simulate_week argument: sequence of AthleteState
    i,          \* loop index of simulate_week
    stats,      \* MicroCycleStats of the run
    logs,       \* list of TrainingDayLog of the run
    rng,        \* state of the module-level generator of `random`
    last,       \* what the most recent choose call computed and drew
    prev_logs,  \* <<>> or <<logs of the previous run on the same input>>
    run_no,     \* number of simulate_week calls started so far
    dice_b,     \* <<>> or <<configuration of a second QuantumDice>>
    own_rng     \* the generator state the first QuantumDice would see if only
                \* its own seeding and its own draws had touched the generator

vars == <<pc, cfg, start_date, states, i, stats, logs, rng, last, prev_logs, run_no,
          dice_b, own_rng>>

-----------------------------------------------------------------------------
(* Exact rational arithmetic on pairs <<w, f>> = w + f/UDen.               *)

\* common denominator: twentieths (risk_aversion) x twentieths (base_risk)
\* x  pain/5 in halves  x  fatigue/10 in halves  x  sleep deficit/7 in halves
UDen == (20 * 20) * (10 * 20 * 14)

QInt(n) == <<n, 0>>

\* n/d for a d that divides UDen
QFrac(n, d) == LET p == n * (UDen \div d) IN <<p \div UDen, p % UDen>>

QAdd(a, b) == LET s == a[2] + b[2] IN <<a[1] + b[1] + s \div UDen, s % UDen>>

QNeg(a) == IF a[2] = 0 THEN <<0 - a[1], 0>> ELSE <<0 - a[1] - 1, UDen - a[2]>>

QSub(a, b) == QAdd(a, QNeg(b))

QMulInt(a, k) == LET p == a[2] * k IN <<a[1] * k + p \div UDen, p % UDen>>

\* a / k for k > 0 (exact whenever k divides the numerator of a)
QDivInt(a, k) ==
    LET t == ((a[1] % k) * UDen + a[2]) \div k
    IN  <<(a[1] \div k) + t \div UDen, t % UDen>>

\* a * (n/d)
QScale(a, n, d) == QDivInt(QMulInt(a, n), d)

QLt(a, b) == a[1] < b[1] \/ (a[1] = b[1] /\ a[2] < b[2])

QLe(a, b) == a = b \/ QLt(a, b)

-----------------------------------------------------------------------------
(* Data model.                                                             *)

None == <<>>

Some(v) == <<v>>

\* TrainingOption (the display name is left out: no decision reads it)
Option(id, min_time, minutes, intensity, base_benefit, base_risk, tags) ==
    [id |-> id, min_time |-> min_time, minutes |-> minutes, intensity |-> intensity,
     base_benefit |-> base_benefit, base_risk |-> base_risk, tags |-> tags]

is_quality(option) == "quality" \in option.tags

is_long(option) == "long" \in option.tags

is_strength(option) == "strength" \in option.tags

AthleteState(fatigue, soreness, pain, sleep_hours, stress, time_minutes, goal) ==
    [fatigue |-> fatigue, soreness |-> soreness, pain |-> pain,
     sleep_hours |-> sleep_hours, stress |-> stress,
     time_minutes |-> time_minutes, goal |-> goal]

\* MicroCycleStats()
NewStats ==
    [run_days |-> 0, strength_days |-> 0, quality_days |-> 0, long_runs |-> 0,
     total_minutes |-> 0,
     last_quality_date |-> None, last_long_date |-> None, last_strength_date |-> None]

QuantumDiceConfig(temperature, exploration, risk_aversion, seed) ==
    [temperature |-> temperature, exploration |-> exploration,
     risk_aversion |-> risk_aversion, seed |-> seed]

\* default_training_options()
default_training_options ==
    << Option("rest",             20,  20, "rest",     6,   1, {"recovery"}),
       Option("easy_run_40",      35,  40, "easy",     26,  7, {"run"}),
       Option("easy_run_60",      55,  60, "easy",     32,  9, {"run"}),
       Option("moderate_hills",   50,  55, "moderate", 38, 17, {"run", "quality"}),
       Option("tempo_45",         45,  50, "hard",     42, 21, {"run", "quality"}),
       Option("long_run_110",     95, 110, "easy",     50, 22, {"run", "long"}),
       Option("strength_45",      35,  45, "strength", 30,  8, {"strength"}),
       Option("easy_plus_str_70", 60,  70, "moderate", 41, 15, {"run", "strength"}) >>

-----------------------------------------------------------------------------
(* QuantumDice.score_option                                                *)

\* the hard-reject utility and risk of an option there is no time for
SentinelUtility == -9999

SentinelRisk == 10

Rejected == <<"ODRZUT: brak czasu">>

\* risk = base_risk * pain_factor * fatigue_factor * (1.0 + sleep_penalty)
RiskOf(option, state) ==
    LET pain_factor    == 10 + state.pain       \* tenths of     1 + pain/5
        fatigue_factor == 20 + state.fatigue    \* twentieths of 1 + fatigue/10
        deficit        == IF 14 - state.sleep_hours > 0 THEN 14 - state.sleep_hours ELSE 0
        sleep_factor   == 14 + deficit          \* fourteenths of 1 + max(0, 7 - sleep)/7
    IN  QMulInt(QMulInt(QMulInt(QFrac(option.base_risk, 20 * (10 * 20 * 14)),
                                pain_factor),
                        fatigue_factor),
                sleep_factor)

\* the goal-dependent multiplicative adjustment of base_benefit
GoalBenefit(option, state) ==
    LET b0 == QFrac(option.base_benefit, 10)
    IN  IF state.goal = "ultra" THEN
            LET b1 == IF is_long(option) THEN QScale(b0, 125, 100) ELSE b0
            IN  IF option.intensity = "easy" THEN QScale(b1, 110, 100) ELSE b1
        ELSE IF state.goal = "half" THEN
            LET b1 == IF is_quality(option) THEN QScale(b0, 125, 100) ELSE b0
            IN  IF option.intensity = "moderate" THEN QScale(b1, 110, 100) ELSE b1
        ELSE IF state.goal = "cut" THEN
            LET b1 == IF option.intensity \in {"easy", "moderate"}
                      THEN QScale(b0, 110, 100) ELSE b0
            IN  IF is_strength(option) THEN QScale(b1, 115, 100) ELSE b1
        ELSE b0

\* the notes of the rules, in the order score_option appends them
NotePain == "kara: bol>=4 => zakaz jakosci/long"

NoteRunBonus == "bonus: domyka 3 dni biegu/tydz"

NoteStrengthBonus == "bonus: domyka sile"

NoteQuality == "kara: jakosc za szybko po jakosci"

NoteLong == "kara: long juz byl w mikrocyklu"

NoteFatigue == "kara: fatigue>=7 nie lubi mocnych akcentow"

NoteLowBase == "kara: mala baza => hard ryzykowny"

NoNotes == <<"brak dodatkowych kar/bonusow">>

\* (mutant) the gate closes from pain 5 on
InjuryGate_FromFive(option, state) ==
    /\ state.pain >= 2 * 5
    /\ (is_quality(option) \/ is_long(option) \/ option.intensity = "hard")

\* 1) pain >= 4 bans hard / quality / long
InjuryGate(option, state) ==
    /\ state.pain >= 2 * 4
    /\ (is_quality(option) \/ is_long(option) \/ option.intensity = "hard")

\* 2) weekly minimum: three running days
RunBonus(option, st) ==
    st.run_days < 3 /\ option.intensity \in {"easy", "moderate", "hard"}

\* 2) weekly minimum: strength
StrengthBonus(option, st) == st.strength_days < 2 /\ is_strength(option)

\* 3) no quality on consecutive days
QualitySpacing(option, st, today) ==
    /\ is_quality(option)
    /\ st.last_quality_date # None
    /\ today - st.last_quality_date[1] < 2

\* 4) one long run per microcycle
LongCap(option, st) == is_long(option) /\ st.long_runs >= 1

\* 5) high fatigue cuts the heavy sessions
HighFatigue(option, state) ==
    /\ state.fatigue >= 2 * 7
    /\ option.intensity \in {"hard", "moderate"}
    /\ ~is_strength(option)

\* 6) small base makes hard risky
LowBase(option, st) == st.run_days <= 1 /\ option.intensity = "hard"

IfNote(cond, note) == IF cond THEN <<note>> ELSE <<>>

\* (mutant) the amount is added whether or not the rule fires
IfQ_Always(cond, n, d) == QFrac(n, d)

IfQ(cond, n, d) == IF cond THEN QFrac(n, d) ELSE QInt(0)

\* score_option(option, state, stats, today) under configuration c:
\* (utility_score, risk_score, rationale_short)
score_option(c, option, state, st, today) ==
    IF state.time_minutes < option.min_time
    THEN [utility |-> QInt(SentinelUtility), risk |-> QInt(SentinelRisk),
          rationale |-> Rejected]
    ELSE
    LET risk      == RiskOf(option, state)
        benefit   == QAdd(QAdd(GoalBenefit(option, state),
                               IfQ(RunBonus(option, st), 8, 10)),
                          IfQ(StrengthBonus(option, st), 9, 10))
        penalties == QAdd(QAdd(QAdd(QAdd(IfQ(InjuryGate(option, state), 40, 10),
                                         IfQ(QualitySpacing(option, st, today), 22, 10)),
                                    IfQ(LongCap(option, st), 25, 10)),
                               IfQ(HighFatigue(option, state), 18, 10)),
                          IfQ(LowBase(option, st), 20, 10))
        notes     == IfNote(InjuryGate(option, state), NotePain)
                     \o IfNote(RunBonus(option, st), NoteRunBonus)
                     \o IfNote(StrengthBonus(option, st), NoteStrengthBonus)
                     \o IfNote(QualitySpacing(option, st, today), NoteQuality)
                     \o IfNote(LongCap(option, st), NoteLong)
                     \o IfNote(HighFatigue(option, state), NoteFatigue)
                     \o IfNote(LowBase(option, st), NoteLowBase)
    IN  [utility   |-> QSub(QSub(benefit, QScale(risk, c.risk_aversion, 20)), penalties),
         risk      |-> risk,
         rationale |-> IF notes # <<>> THEN notes ELSE NoNotes]

-----------------------------------------------------------------------------
(* The module-level generator of `random`, shared by every QuantumDice.    *)
(* The Mersenne Twister is replaced by a small full-period congruential    *)
(* generator: a deterministic function of the state, as the original is.   *)

RngMod == 8

\* random.seed(seed): the state the generator is put in
RngSeed(seed) == seed % RngMod

\* the state after one random.random()
RngNext(s) == (5 * s + 3) % RngMod

\* probabilities and draws are fixed-point numbers in units of 1/PScale
PScale == 100 * 100

\* the value in [0, 1) that random.random() returns on reaching state s:
\* (s + 1/2) / RngMod
RngValue(s) == ((2 * s + 1) * PScale) \div (2 * RngMod)

\* (mutant) the constructor ignores the seed
QuantumDiceInit_NoSeed(c, g) == g

\* QuantumDice.__init__: the generator state after construction
QuantumDiceInit(c, g) == IF c.seed # None THEN RngSeed(c.seed[1]) ELSE g

-----------------------------------------------------------------------------
(* QuantumDice._softmax                                                    *)

RECURSIVE QMaxOf(_)
QMaxOf(xs) ==
    IF Len(xs) = 1 THEN xs[1]
    ELSE LET m == QMaxOf(Tail(xs)) IN IF QLt(xs[1], m) THEN m ELSE xs[1]

RECURSIVE SumSeq(_)
SumSeq(ns) == IF ns = <<>> THEN 0 ELSE ns[1] + SumSeq(Tail(ns))

\* e^-k for k = 0, 1, 2, ... in units of 1/PScale (0 from k = 10 on)
ExpNegInt(k) ==
    LET table == <<10000, 3679, 1353, 498, 183, 67, 25, 9, 3, 1>>
    IN  IF k < Len(table) THEN table[k + 1] ELSE 0

\* e^(fm/1000) for 0 <= fm < 1000, in units of 1/PScale: the Taylor series
RECURSIVE ExpSeries(_, _, _)
ExpSeries(fm, term, n) ==
    IF term = 0 THEN 0
    ELSE term + ExpSeries(fm, (term * fm) \div (1000 * n), n + 1)

\* math.exp(d / temperature) for a difference d <= 0 and a temperature > 0
\* in hundredths, in units of 1/PScale; differences are read to 1/100
ExpOver(d, temperature) ==
    IF 0 - d[1] > temperature \div 10 + 1 THEN 0   \* d/temperature < -10: below 1/PScale
    ELSE
    LET d100 == d[1] * 100 + (d[2] * 100) \div UDen
        zi   == d100 \div temperature               \* floor of the exponent
        fm   == ((d100 % temperature) * 1000) \div temperature
    IN  (ExpNegInt(0 - zi) * ExpSeries(fm, PScale, 1)) \div PScale

\* (mutant) the weights are returned as they are, not divided by their sum
Softmax_Unnormalised(xs, temperature) ==
    LET m == QMaxOf(xs) IN
    IF temperature <= 0
    THEN [k \in 1..Len(xs) |-> IF xs[k] = m THEN PScale ELSE 0]
    ELSE [k \in 1..Len(xs) |-> ExpOver(QSub(xs[k], m), temperature)]

\* _softmax(xs, temperature): the list of probabilities
Softmax(xs, temperature) ==
    LET m == QMaxOf(xs) IN
    IF temperature <= 0     \* temperature <= 1e-9, on the grid of hundredths
    THEN LET probs == [k \in 1..Len(xs) |-> IF xs[k] = m THEN 1 ELSE 0]
             s     == SumSeq(probs)
         IN  [k \in 1..Len(xs) |-> (probs[k] * PScale) \div s]
    ELSE LET exps == [k \in 1..Len(xs) |-> ExpOver(QSub(xs[k], m), temperature)]
             s    == SumSeq(exps)
         IN  [k \in 1..Len(xs) |-> (exps[k] * PScale) \div s]

-----------------------------------------------------------------------------
(* QuantumDice.choose                                                      *)

\* (mutant) equal utilities are put in reverse order
InsertDesc_TiesReversed(sorted, e) ==
    LET k == Cardinality({j \in 1..Len(sorted) : QLt(e.utility, sorted[j].utility)})
    IN  SubSeq(sorted, 1, k) \o <<e>> \o SubSeq(sorted, k + 1, Len(sorted))

\* list.sort(key = utility, reverse = True) is stable: an entry goes after
\* every entry already placed whose utility is not smaller
InsertDesc(sorted, e) ==
    LET k == Cardinality({j \in 1..Len(sorted) : QLe(e.utility, sorted[j].utility)})
    IN  SubSeq(sorted, 1, k) \o <<e>> \o SubSeq(sorted, k + 1, Len(sorted))

RECURSIVE SortDesc(_, _)
SortDesc(scored, n) ==
    IF n = 0 THEN <<>> ELSE InsertDesc(SortDesc(scored, n - 1), scored[n])

\* the (u, opt, r, why) tuples of the catalog, in catalog order
ScoreAll(c, options, state, st, today) ==
    [k \in 1..Len(options) |->
        LET sc == score_option(c, options[k], state, st, today)
        IN  [utility |-> sc.utility, option |-> options[k], risk |-> sc.risk,
             rationale |-> sc.rationale]]

\* (mutant) the last index whose cumulative probability reaches pick
SampleIdx_Last(probs, pick) ==
    LET hit == {k \in 1..Len(probs) : pick <= SumSeq(SubSeq(probs, 1, k))}
    IN  IF hit = {} THEN 1 ELSE CHOOSE k \in hit : \A j \in hit : k >= j

\* the first index whose cumulative probability reaches pick, else the first
SampleIdx(probs, pick) ==
    LET hit == {k \in 1..Len(probs) : pick <= SumSeq(SubSeq(probs, 1, k))}
    IN  IF hit = {} THEN 1 ELSE CHOOSE k \in hit : \A j \in hit : k <= j

top_k == 6

\* choose(options, state, stats, today) of a QuantumDice with configuration c,
\* the generator being in state g: the chosen option, the ranking, and the
\* generator state it leaves
choose(c, options, state, st, today, g) ==
    LET scored    == SortDesc(ScoreAll(c, options, state, st, today), Len(options))
        utilities == [k \in 1..Len(scored) |-> scored[k].utility]
        probs     == Softmax(utilities, c.temperature)
        g1        == RngNext(g)
        g2        == RngNext(g1)
        explore   == RngValue(g1) * 100 < c.exploration * PScale
        idx       == IF explore THEN SampleIdx(probs, RngValue(g2)) ELSE 1
    IN  [chosen |-> scored[idx].option,
         top    |-> SubSeq(scored, 1, IF Len(scored) < top_k THEN Len(scored) ELSE top_k),
         scored |-> scored,
         probs  |-> probs,
         idx    |-> idx,
         draws  |-> IF explore THEN <<g1, g2>> ELSE <<g1>>,
         rng    |-> IF explore THEN g2 ELSE g1]

-----------------------------------------------------------------------------
(* apply_session_to_stats and brutal_coach_comment                         *)

\* (mutant) every session that is neither strength nor rest is a running day
apply_session_to_stats_NoRunTest(st, session, date) ==
    LET run == ~is_strength(session) /\ session.intensity # "rest"
    IN  [st EXCEPT
            !.total_minutes = @ + session.minutes,
            !.run_days = IF run THEN @ + 1 ELSE @,
            !.strength_days = IF is_strength(session) THEN @ + 1 ELSE @,
            !.last_strength_date = IF is_strength(session) THEN Some(date) ELSE @,
            !.quality_days = IF is_quality(session) THEN @ + 1 ELSE @,
            !.last_quality_date = IF is_quality(session) THEN Some(date) ELSE @,
            !.long_runs = IF is_long(session) THEN @ + 1 ELSE @,
            !.last_long_date = IF is_long(session) THEN Some(date) ELSE @]

\* (mutant) a last-occurrence date, once set, is kept
apply_session_to_stats_DatesOnce(st, session, date) ==
    LET run == /\ ("run" \in session.tags
                   \/ session.intensity \in {"easy", "moderate", "hard"})
               /\ ~is_strength(session)
               /\ session.intensity # "rest"
    IN  [st EXCEPT
            !.total_minutes = @ + session.minutes,
            !.run_days = IF run THEN @ + 1 ELSE @,
            !.strength_days = IF is_strength(session) THEN @ + 1 ELSE @,
            !.last_strength_date = IF is_strength(session) /\ @ = None THEN Some(date) ELSE @,
            !.quality_days = IF is_quality(session) THEN @ + 1 ELSE @,
            !.last_quality_date = IF is_quality(session) /\ @ = None THEN Some(date) ELSE @,
            !.long_runs = IF is_long(session) THEN @ + 1 ELSE @,
            !.last_long_date = IF is_long(session) /\ @ = None THEN Some(date) ELSE @]

apply_session_to_stats(st, session, date) ==
    LET run == /\ ("run" \in session.tags
                   \/ session.intensity \in {"easy", "moderate", "hard"})
               /\ ~is_strength(session)
               /\ session.intensity # "rest"
    IN  [st EXCEPT
            !.total_minutes = @ + session.minutes,
            !.run_days = IF run THEN @ + 1 ELSE @,
            !.strength_days = IF is_strength(session) THEN @ + 1 ELSE @,
            !.last_strength_date = IF is_strength(session) THEN Some(date) ELSE @,
            !.quality_days = IF is_quality(session) THEN @ + 1 ELSE @,
            !.last_quality_date = IF is_quality(session) THEN Some(date) ELSE @,
            !.long_runs = IF is_long(session) THEN @ + 1 ELSE @,
            !.last_long_date = IF is_long(session) THEN Some(date) ELSE @]

\* (mutant) only the first breached threshold is reported
brutal_coach_comment_FirstOnly(st) ==
    IF st.run_days < 3 THEN <<<<"Diagnoza (bez cukru)">>, <<"Bieganie: za malo", st.run_days>>>>
    ELSE IF st.strength_days < 2
         THEN <<<<"Diagnoza (bez cukru)">>, <<"Sila: za malo", st.strength_days>>>>
    ELSE IF st.quality_days < 1 THEN <<<<"Diagnoza (bez cukru)">>, <<"Brak jakosci">>>>
    ELSE IF st.long_runs < 1 THEN <<<<"Diagnoza (bez cukru)">>, <<"Brak long run">>>>
    ELSE <<<<"W tym mikrocyklu robota wyglada sensownie">>>>

\* the narrative: one bullet per breached threshold (with the counter it
\* quotes), or the affirmation when there is none
brutal_coach_comment(st) ==
    LET bullets ==
            (IF st.run_days < 3 THEN <<<<"Bieganie: za malo", st.run_days>>>> ELSE <<>>)
            \o (IF st.strength_days < 2 THEN <<<<"Sila: za malo", st.strength_days>>>> ELSE <<>>)
            \o (IF st.quality_days < 1 THEN <<<<"Brak jakosci">>>> ELSE <<>>)
            \o (IF st.long_runs < 1 THEN <<<<"Brak long run">>>> ELSE <<>>)
    IN  IF bullets = <<>> THEN <<<<"W tym mikrocyklu robota wyglada sensownie">>>>
        ELSE <<<<"Diagnoza (bez cukru)">>>> \o bullets

-----------------------------------------------------------------------------
(* simulate_week                                                           *)

\* f"{x:.2f}": x rounded to hundredths
Fmt2(q) == q[1] * 100 + (q[2] * 200 + UDen) \div (2 * UDen)

\* the rationale of a day: the chosen name, the reason, the TOP candidates
DayRationale(chosen, why, top) ==
    [chosen |-> chosen.id,
     why    |-> why,
     top    |-> [k \in 1..Len(top) |->
                    <<k, Fmt2(top[k].utility), Fmt2(top[k].risk),
                      top[k].option.id, top[k].rationale>>]]

\* (mutant) the chosen option is scored once more after the statistics update
DayLog_AfterUpdate(c, res, st, stats0, day) ==
    LET sc == score_option(c, res.chosen, st,
                           apply_session_to_stats(stats0, res.chosen, day), day)
    IN  [date       |-> day,
         session_id |-> res.chosen.id,
         minutes    |-> res.chosen.minutes,
         intensity  |-> res.chosen.intensity,
         score      |-> sc.utility,
         risk       |-> sc.risk,
         rationale  |-> DayRationale(res.chosen, sc.rationale, res.top)]

\* the TrainingDayLog of a day: the chosen option is scored once more, with
\* the state, the statistics and the date choose was called with
DayLog(c, res, st, stats0, day) ==
    LET sc == score_option(c, res.chosen, st, stats0, day)
    IN  [date       |-> day,
         session_id |-> res.chosen.id,
         minutes    |-> res.chosen.minutes,
         intensity  |-> res.chosen.intensity,
         score      |-> sc.utility,
         risk       |-> sc.risk,
         rationale  |-> DayRationale(res.chosen, sc.rationale, res.top)]

\* (mutant) the summary is dated on the last planned day
SummaryLog_LastDay(date, st) ==
    [date       |-> date - 1,
     session_id |-> "WEEK_SUMMARY",
     minutes    |-> st.total_minutes,
     intensity  |-> "summary",
     score      |-> QInt(0),
     risk       |-> QInt(0),
     rationale  |-> [run_days |-> st.run_days, strength_days |-> st.strength_days,
                     quality_days |-> st.quality_days, long_runs |-> st.long_runs,
                     total_minutes |-> st.total_minutes,
                     comment |-> brutal_coach_comment(st)]]

\* the trailing record of a run
SummaryLog(date, st) ==
    [date       |-> date,
     session_id |-> "WEEK_SUMMARY",
     minutes    |-> st.total_minutes,
     intensity  |-> "summary",
     score      |-> QInt(0),
     risk       |-> QInt(0),
     rationale  |-> [run_days |-> st.run_days, strength_days |-> st.strength_days,
                     quality_days |-> st.quality_days, long_runs |-> st.long_runs,
                     total_minutes |-> st.total_minutes,
                     comment |-> brutal_coach_comment(st)]]

\* no choose call made yet; rng0 is the generator state choose was entered
\* with, ndraws the number of random.random() calls of the run so far
NoCall == [day |-> -1, state |-> <<>>, stats |-> NewStats, res |-> <<>>, rng0 |-> 0, ndraws |-> 0]

-----------------------------------------------------------------------------
(* Inputs.                                                                 *)

MaxDays == 7

MaxRuns == 2

\*                        fatigue sore pain sleep stress time  goal
DayStates ==
    { AthleteState(10,  8,   4,  14,  8, 120, "ultra"),   \* moderate, ample time
      AthleteState( 8,  8,   0,  14,  8, 120, "ultra"),   \* moderate, no pain
      AthleteState(13, 10,   4,  12, 12,  50, "ultra"),   \* tired, 50 minutes
      AthleteState(12, 10,   9,  13, 12,  60, "half"),    \* pain 4.5
      AthleteState(15, 12,   6,  11, 14,  20, "cut"),     \* time for rest only
      AthleteState(10,  8,   4,  14,  8,  10, "ultra"),   \* time for nothing
      AthleteState(380, 8, 390, -224, 8,  50, "other") }  \* far out of the scales

ModerateUltra == AthleteState(10, 8, 4, 14, 8, 120, "ultra")

\* a week alternates two day states
WeekOf(a, b, n) == [k \in 1..n |-> IF k % 2 = 1 THEN a ELSE b]

Weeks ==
    {WeekOf(a, b, n) : a \in DayStates, b \in {ModerateUltra}, n \in 0..MaxDays}
    \cup {WeekOf(a, a, MaxDays) : a \in DayStates}

\*                           temperature exploration risk_aversion seed
Configs ==
    { QuantumDiceConfig(     65, 12,   27, None),       \* the defaults
      QuantumDiceConfig(     60, 10,   29, Some(42)),   \* the example run
      QuantumDiceConfig(      0,  0,   27, None),       \* greedy, no temperature
      QuantumDiceConfig(     65,  0, 1900, Some(1)),    \* greedy, risk_aversion 95
      QuantumDiceConfig(1000000, 99,   27, Some(7)),    \* temperature 10000
      QuantumDiceConfig(    200, 50,   27, None) }

-----------------------------------------------------------------------------
(* The planner: simulate_week called up to MaxRuns times on one input, and *)
(* other users of the module-level generator between the calls.            *)

Init ==
    /\ pc = "idle"
    /\ cfg \in Configs
    /\ start_date \in {0}
    /\ states \in Weeks
    /\ i = 0
    /\ stats = NewStats
    /\ logs = <<>>
    /\ rng \in 0..(RngMod - 1)
    /\ last = NoCall
    /\ prev_logs = None
    /\ run_no = 0
    /\ dice_b = None
    /\ own_rng = 0

\* simulate_week is entered: qd, options, stats, logs
Start ==
    /\ pc \in {"idle", "done"}
    /\ run_no < MaxRuns
    /\ pc' = "loop"
    /\ run_no' = run_no + 1
    /\ prev_logs' = IF pc = "done" THEN Some(logs) ELSE prev_logs
    /\ rng' = QuantumDiceInit(cfg, rng)
    /\ stats' = NewStats
    /\ logs' = <<>>
    /\ i' = 0
    /\ last' = NoCall
    /\ UNCHANGED <<cfg, start_date, states, dice_b, own_rng>>

\* the loop has a state left to plan / has run out of states
MoreDays == pc = "loop" /\ i < Len(states)

LoopOver == pc = "loop" /\ i = Len(states)

\* (mutant) the statistics are started afresh on every day
Day_ResetStats ==
    /\ MoreDays
    /\ LET st  == states[i + 1]
           day == start_date + i
           res == choose(cfg, default_training_options, st, stats, day, rng)
       IN  /\ logs' = Append(logs, DayLog(cfg, res, st, stats, day))
           /\ stats' = apply_session_to_stats(NewStats, res.chosen, day)
           /\ rng' = res.rng
           /\ last' = [day |-> day, state |-> st, stats |-> stats, res |-> res,
                       rng0 |-> rng, ndraws |-> last.ndraws + Len(res.draws)]
    /\ i' = i + 1
    /\ UNCHANGED <<pc, cfg, start_date, states, prev_logs, run_no, dice_b, own_rng>>

\* one iteration of the loop over the states
Day ==
    /\ MoreDays
    /\ LET st  == states[i + 1]
           day == start_date + i
           res == choose(cfg, default_training_options, st, stats, day, rng)
       IN  /\ logs' = Append(logs, DayLog(cfg, res, st, stats, day))
           /\ stats' = apply_session_to_stats(stats, res.chosen, day)
           /\ rng' = res.rng
           /\ last' = [day |-> day, state |-> st, stats |-> stats, res |-> res,
                       rng0 |-> rng, ndraws |-> last.ndraws + Len(res.draws)]
    /\ i' = i + 1
    /\ UNCHANGED <<pc, cfg, start_date, states, prev_logs, run_no, dice_b, own_rng>>

\* the loop is over: the summary record is appended and the logs returned
Finish ==
    /\ LoopOver
    /\ logs' = Append(logs, SummaryLog(start_date + Len(states), stats))
    /\ pc' = "done"
    /\ UNCHANGED <<cfg, start_date, states, i, stats, rng, last, prev_logs, run_no,
                   dice_b, own_rng>>

\* between two runs some other code draws from the module-level generator
OtherDraw ==
    /\ pc = "done"
    /\ prev_logs = None
    /\ rng' = RngNext(rng)
    /\ UNCHANGED <<pc, cfg, start_date, states, i, stats, logs, last, prev_logs, run_no,
                   dice_b, own_rng>>

Next == Start \/ Day \/ Finish \/ OtherDraw

Spec == Init /\ [][Next]_vars

-----------------------------------------------------------------------------
(* Properties of a planning run.                                           *)

Feasible(option, state) == state.time_minutes >= option.min_time

Called == last.res # <<>>

CatalogIds == {default_training_options[k].id : k \in 1..Len(default_training_options)}

OptionById(id) ==
    CHOOSE o \in {default_training_options[k] : k \in 1..Len(default_training_options)} :
        o.id = id

\* C1: on every day of a run, under every configuration, when some catalog
\* option is feasible for the day's state the option choose returns is
\* feasible (a sentinel-scored option is never the chosen one).
C1_ChosenFeasible ==
    Called =>
        ((\E k \in 1..Len(last.res.scored) :
              Feasible(last.res.scored[k].option, last.state))
         => Feasible(last.res.chosen, last.state))

\* C2: an option there is no time for is scored (-9999, 10) and, in the
\* ranked list choose builds, comes after every feasible option, for every
\* state (in or out of the scales) and every risk_aversion > 0.
C2_InfeasibleLast ==
    Called =>
        \A j \in 1..Len(last.res.scored) :
            ~Feasible(last.res.scored[j].option, last.state) =>
                /\ last.res.scored[j].utility = QInt(SentinelUtility)
                /\ last.res.scored[j].risk = QInt(SentinelRisk)
                /\ \A k \in 1..Len(last.res.scored) :
                       Feasible(last.res.scored[k].option, last.state) => k < j

\* C3: a run with a fixed seed returns the same logs as the previous run on
\* the same start date, states and configuration, whatever was drawn from
\* the generator in between.
C3_SeededRunsAgree ==
    (pc = "done" /\ prev_logs # None /\ cfg.seed # None) => logs = prev_logs[1]

\* a seeded second run has finished and its last day sampled from the softmax
C3_Witness ==
    /\ pc = "done" /\ prev_logs # None /\ cfg.seed # None
    /\ Len(logs) > 2
    /\ Called /\ Len(last.res.draws) = 2 /\ last.res.idx > 1

\* the statistics the options of the first n day records add up to
CountLogs(n, P(_)) == Cardinality({k \in 1..n : P(OptionById(logs[k].session_id))})

IsRunDay(o) == ~is_strength(o) /\ o.intensity # "rest"

SumMinutes(n) == SumSeq([k \in 1..n |-> logs[k].minutes])

CountersAre(st, n) ==
    /\ st.total_minutes = SumMinutes(n)
    /\ st.run_days = CountLogs(n, IsRunDay)
    /\ st.strength_days = CountLogs(n, is_strength)
    /\ st.quality_days = CountLogs(n, is_quality)
    /\ st.long_runs = CountLogs(n, is_long)

\* C7: the statistics start at zero/unset, are updated once per day after
\* the day's record is appended and are never reset: the statistics day N is
\* scored with are the sums over the options chosen on days 1..N-1, and the
\* statistics after day N those over days 1..N.
C7_StatsSequential ==
    /\ (pc = "loop" /\ i = 0) => stats = NewStats
    /\ pc \in {"loop", "done"} => CountersAre(stats, i)
    /\ (pc \in {"loop", "done"} /\ Called) => CountersAre(last.stats, i - 1)

\* day 4 or later, with running, strength, quality and long days behind
C7_Witness ==
    /\ pc = "loop" /\ i >= 4 /\ Called
    /\ last.stats.run_days >= 1 /\ last.stats.strength_days >= 1
    /\ last.stats.long_runs >= 1 /\ stats.total_minutes > last.stats.total_minutes

\* C8: the score and risk in a day's record are the utility and risk the
\* ranking of the same choose call holds for the chosen option.
C8_LogMatchesSelector ==
    (pc \in {"loop", "done"} /\ Called) =>
        /\ logs[i].session_id = last.res.scored[last.res.idx].option.id
        /\ logs[i].score = last.res.scored[last.res.idx].utility
        /\ logs[i].risk = last.res.scored[last.res.idx].risk

\* a day on which the chosen long run changes its own later score
C8_Witness ==
    /\ pc = "loop" /\ Called
    /\ is_long(last.res.chosen) /\ last.stats.long_runs = 0 /\ stats.long_runs = 1

\* C9: for n states simulate_week terminates and returns n + 1 records:
\* record k is dated start_date + k - 1 and names a catalog option, the last
\* one alone has the id WEEK_SUMMARY (no catalog id), is dated
\* start_date + n and carries the sum of the minutes of the day records.
\* Termination: inside the loop an iteration or the exit is always possible
\* (their guards are all that can disable them), and every iteration has
\* appended one record and moved i towards Len(states).
C9_ReturnsLogs ==
    /\ pc = "loop" =>
           /\ MoreDays \/ LoopOver
           /\ Len(logs) = i
    /\ pc = "done" =>
        LET n == Len(states) IN
        /\ Len(logs) = n + 1
        /\ \A k \in 1..n :
               /\ logs[k].date = start_date + (k - 1)
               /\ logs[k].session_id \in CatalogIds
        /\ logs[n + 1].session_id = "WEEK_SUMMARY"
        /\ "WEEK_SUMMARY" \notin CatalogIds
        /\ logs[n + 1].date = start_date + n
        /\ logs[n + 1].minutes = stats.total_minutes
        /\ logs[n + 1].minutes = SumMinutes(n)

C9_Witness == pc = "done" /\ Len(states) = MaxDays /\ stats.total_minutes > 0

ModerateFatigue(state) == 2 * 4 <= state.fatigue /\ state.fatigue <= 2 * 6

\* C10: seven days of moderate-fatigue states with goal ultra and time for
\* every catalog option end with run_days >= 3 and long_runs <= 1, under
\* every configuration.
C10_WeekMinimum ==
    (/\ pc = "done"
     /\ Len(states) = 7
     /\ \A k \in 1..Len(states) :
            /\ ModerateFatigue(states[k])
            /\ states[k].goal = "ultra"
            /\ \A o \in 1..Len(default_training_options) :
                   Feasible(default_training_options[o], states[k]))
    => (stats.run_days >= 3 /\ stats.long_runs <= 1)

-----------------------------------------------------------------------------
(* A caller that holds a QuantumDice (configuration cfg) and calls choose  *)
(* on it directly.                                                         *)

MaxCalls == 1

\* catalogs handed to choose: the default one, one whose best three options
\* are equal in every coefficient, and a single option
TieCatalog ==
    << Option("walk",   20, 30, "rest", 6,  1, {"recovery"}),
       Option("easy_a", 30, 40, "easy", 26, 7, {"run"}),
       Option("easy_b", 30, 40, "easy", 26, 7, {"run"}),
       Option("easy_c", 30, 40, "easy", 26, 7, {"run"}) >>

Catalogs ==
    { default_training_options,
      TieCatalog,
      <<Option("only", 20, 20, "rest", 6, 1, {"recovery"})>> }

\* statistics handed to choose: a fresh week, and day 3 of a week under way
MidWeek ==
    [run_days |-> 3, strength_days |-> 2, quality_days |-> 1, long_runs |-> 1,
     total_minutes |-> 300,
     last_quality_date |-> Some(2), last_long_date |-> Some(1),
     last_strength_date |-> Some(2)]

\* the QuantumDice has been constructed, the generator being in any state
InitDice ==
    /\ pc = "caller"
    /\ cfg \in Configs
    /\ \E g \in 0..(RngMod - 1) :
           /\ rng = QuantumDiceInit(cfg, g)
           /\ own_rng = QuantumDiceInit(cfg, g)
    /\ dice_b = None
    /\ i = 0
    /\ last = NoCall
    /\ stats = NewStats
    /\ start_date = 0
    /\ states = <<>>
    /\ logs = <<>>
    /\ prev_logs = None
    /\ run_no = 0

\* qd.choose(options, state, st, today): the call leaves what it computed in
\* last, next to what it would have computed on its own stream of draws
ChooseWith(options, state, st, today) ==
    LET res == choose(cfg, options, state, st, today, rng)
        own == choose(cfg, options, state, st, today, own_rng)
    IN  /\ rng' = res.rng
        /\ own_rng' = own.rng
        /\ last' = [day |-> today, state |-> state, stats |-> st, res |-> res,
                    options |-> options, own |-> own]
        /\ i' = i + 1
        /\ UNCHANGED <<pc, cfg, start_date, states, stats, logs, prev_logs, run_no,
                       dice_b>>

\* the caller calls choose, up to MaxCalls times
ChooseA ==
    /\ i < MaxCalls
    /\ \E options \in Catalogs, state \in DayStates, st \in {NewStats, MidWeek} :
           ChooseWith(options, state, st, 3)

SpecChoose == InitDice /\ [][ChooseA]_vars

-----------------------------------------------------------------------------
(* The same caller while a second QuantumDice is constructed and used; i   *)
(* counts the steps of both.                                               *)

MaxSteps == 3

\* the first QuantumDice chooses for a day of the default catalog
ChooseFirst ==
    /\ i < MaxSteps
    /\ \E state \in {ModerateUltra, AthleteState(15, 12, 6, 11, 14, 20, "cut")} :
           ChooseWith(default_training_options, state, NewStats, 3)

\* configurations of the second QuantumDice: one seeded, one not
DiceBConfigs ==
    { QuantumDiceConfig(60, 10, 29, Some(42)), QuantumDiceConfig(200, 50, 27, None) }

\* a second QuantumDice is constructed
NewDiceB ==
    /\ i < MaxSteps
    /\ \E c \in DiceBConfigs :
           /\ dice_b' = Some(c)
           /\ rng' = QuantumDiceInit(c, rng)
    /\ i' = i + 1
    /\ UNCHANGED <<pc, cfg, start_date, states, stats, logs, prev_logs, run_no, last,
                   own_rng>>

\* the second QuantumDice chooses
ChooseB ==
    /\ i < MaxSteps
    /\ dice_b # None
    /\ rng' = choose(dice_b[1], default_training_options, ModerateUltra, NewStats, 3, rng).rng
    /\ i' = i + 1
    /\ UNCHANGED <<pc, cfg, start_date, states, stats, logs, prev_logs, run_no, last,
                   dice_b, own_rng>>

NextDice == ChooseFirst \/ NewDiceB \/ ChooseB

SpecDice == InitDice /\ [][NextDice]_vars

\* C4: the draws a QuantumDice sees depend only on its own seed and its own
\* choose calls: constructing or using a second QuantumDice between its
\* calls does not change what it picks (its pick is the one it makes on its
\* own stream of draws).
C4_OwnStream == Called => last.res.chosen = last.own.chosen

Greedy(c) == c.exploration = 0 /\ c.temperature <= 0

IsMaxAt(scoredAll, k) ==
    \A j \in 1..Len(scoredAll) : QLe(scoredAll[j].utility, scoredAll[k].utility)

\* C5: with exploration = 0 and temperature <= 1e-9 choose returns, for a
\* non-empty catalog, the first option in catalog order among those whose
\* utility is the maximum over the catalog, whatever the generator state.
C5_GreedyArgmax ==
    (Called /\ Greedy(cfg)) =>
        LET all == ScoreAll(cfg, last.options, last.state, last.stats, last.day)
        IN  \E k \in 1..Len(all) :
                /\ IsMaxAt(all, k)
                /\ \A j \in 1..(k - 1) : ~IsMaxAt(all, j)
                /\ last.res.chosen = last.options[k]

\* a greedy choice among three options tied for the maximum, none of them first
C5_Witness ==
    /\ Called /\ Greedy(cfg)
    /\ last.options = TieCatalog
    /\ Feasible(TieCatalog[2], last.state)
    /\ last.res.chosen = TieCatalog[2]
    /\ last.res.scored[2].utility = last.res.scored[1].utility

-----------------------------------------------------------------------------
(* apply_session_to_stats called once on any option and statistics.        *)

Intensities == {"easy", "moderate", "hard", "strength", "rest"}

Tags == {"recovery", "run", "quality", "long", "strength"}

AnyOptions == {Option("any", 30, 45, it, 30, 8, tg) : it \in Intensities, tg \in SUBSET Tags}

InitApply ==
    /\ pc = "caller"
    /\ stats \in {NewStats, MidWeek}
    /\ \E o \in AnyOptions, d \in {3, 5} :
           last = [session |-> o, date |-> d, before |-> stats]
    /\ i = 0
    /\ cfg = QuantumDiceConfig(65, 12, 27, None)
    /\ rng = 0
    /\ own_rng = 0
    /\ dice_b = None
    /\ start_date = 0
    /\ states = <<>>
    /\ logs = <<>>
    /\ prev_logs = None
    /\ run_no = 0

ApplySession ==
    /\ i = 0
    /\ stats' = apply_session_to_stats(stats, last.session, last.date)
    /\ i' = 1
    /\ UNCHANGED <<pc, cfg, start_date, states, logs, rng, last, prev_logs, run_no,
                   dice_b, own_rng>>

SpecApply == InitApply /\ [][ApplySession]_vars

Bump(n, cond) == IF cond THEN n + 1 ELSE n

\* what one call does to each field, a running day being counted when run
ApplyEffect(run) ==
    LET o == last.session
        b == last.before
    IN  /\ stats.total_minutes = b.total_minutes + o.minutes
        /\ stats.run_days = Bump(b.run_days, run)
        /\ stats.strength_days = Bump(b.strength_days, is_strength(o))
        /\ stats.last_strength_date =
               (IF is_strength(o) THEN Some(last.date) ELSE b.last_strength_date)
        /\ stats.quality_days = Bump(b.quality_days, is_quality(o))
        /\ stats.last_quality_date =
               (IF is_quality(o) THEN Some(last.date) ELSE b.last_quality_date)
        /\ stats.long_runs = Bump(b.long_runs, is_long(o))
        /\ stats.last_long_date =
               (IF is_long(o) THEN Some(last.date) ELSE b.last_long_date)
        /\ DOMAIN stats = DOMAIN b

\* C6 as claimed: for every option (any intensity, any set of tags) one call
\* adds the minutes, adds 1 to run_days exactly when the option lacks the
\* strength tag and its intensity is not rest, counts and dates strength,
\* quality and long exactly when the tag is there, and changes nothing else.
C6_AsClaimed ==
    i = 1 => ApplyEffect(~is_strength(last.session) /\ last.session.intensity # "rest")

\* C6 amended: run_days gains 1 exactly when the option has the run tag or
\* an intensity of easy, moderate or hard, and lacks the strength tag, and
\* its intensity is not rest; the rest as claimed.
C6_ApplySession ==
    i = 1 =>
        ApplyEffect(/\ ("run" \in last.session.tags
                        \/ last.session.intensity \in {"easy", "moderate", "hard"})
                    /\ ~is_strength(last.session)
                    /\ last.session.intensity # "rest")

\* a session of intensity "strength" carrying neither the strength nor the
\* run tag has been applied: no running day is counted
C6_Witness ==
    /\ i = 1
    /\ last.session.intensity = "strength"
    /\ last.session.tags = {"quality", "long"}
    /\ stats.run_days = last.before.run_days
    /\ stats.long_runs = last.before.long_runs + 1

-----------------------------------------------------------------------------
(* score_option called once on any option of the catalog, any state on a   *)
(* grid that reaches beyond the scales, and any statistics.                *)

\* pain and fatigue in halves, from below the scales to above them
PainValues == {-24, 0, 4, 8, 9, 20}

FatigueValues == {-44, 0, 8, 14, 20}

\* sleep_hours in halves: 4 h, 7 h, 10 h, and a negative entry
SleepValues == {-10, 8, 14, 20}

Goals == {"ultra", "half", "cut", "other"}

ScoreStates ==
    {AthleteState(f, 8, p, s, 8, t, g) :
        f \in FatigueValues, p \in PainValues, s \in SleepValues,
        t \in {30, 120}, g \in Goals}

\* a week with one running day, a quality day, on day 2
EarlyWeek ==
    [run_days |-> 1, strength_days |-> 0, quality_days |-> 1, long_runs |-> 0,
     total_minutes |-> 55,
     last_quality_date |-> Some(2), last_long_date |-> None,
     last_strength_date |-> None]

ScoreStats == {NewStats, EarlyWeek, MidWeek}

\*                 risk_aversion 0.5, the default 1.35, and 95
ScoreConfigs ==
    { QuantumDiceConfig(65, 12,   10, None),
      QuantumDiceConfig(65, 12,   27, None),
      QuantumDiceConfig(65, 12, 1900, None) }

InitScore ==
    /\ pc = "caller"
    /\ cfg \in ScoreConfigs
    /\ stats \in ScoreStats
    /\ \E k \in 1..Len(default_training_options), state \in ScoreStates, today \in {3, 5} :
           last = [option |-> default_training_options[k], state |-> state, today |-> today]
    /\ i = 0
    /\ rng = 0
    /\ own_rng = 0
    /\ dice_b = None
    /\ start_date = 0
    /\ states = <<>>
    /\ logs = <<>>
    /\ prev_logs = None
    /\ run_no = 0

\* qd.score_option(option, state, stats, today): the triple it returns
ScoreOption ==
    /\ i = 0
    /\ logs' = <<score_option(cfg, last.option, last.state, stats, last.today)>>
    /\ i' = 1
    /\ UNCHANGED <<pc, cfg, start_date, states, stats, rng, last, prev_logs, run_no,
                   dice_b, own_rng>>

SpecScore == InitScore /\ [][ScoreOption]_vars

Scored == i = 1

\* the risk score_option returns for the scored option in another state
RiskIn(state) == score_option(cfg, last.option, state, stats, last.today).risk

SleepDeficit(state) == IF 14 - state.sleep_hours > 0 THEN 14 - state.sleep_hours ELSE 0

\* C11: for a feasible option, raising one of pain, fatigue or the sleep
\* deficit max(0, 7 - sleep_hours) and leaving the rest of the state alone
\* never lowers the risk score_option returns, for every value of the
\* scales and beyond them.
C11_RiskMonotone ==
    (Scored /\ Feasible(last.option, last.state)) =>
        /\ \A p \in PainValues :
               p >= last.state.pain =>
                   QLe(logs[1].risk, RiskIn([last.state EXCEPT !.pain = p]))
        /\ \A f \in FatigueValues :
               f >= last.state.fatigue =>
                   QLe(logs[1].risk, RiskIn([last.state EXCEPT !.fatigue = f]))
        /\ \A s \in SleepValues :
               SleepDeficit([last.state EXCEPT !.sleep_hours = s]) >= SleepDeficit(last.state) =>
                   QLe(logs[1].risk, RiskIn([last.state EXCEPT !.sleep_hours = s]))

-----------------------------------------------------------------------------
(* _softmax called once on any short vector of utilities.                  *)

MaxLen == 3

\* utilities: the sentinel, a negative one, zero, and two positive ones
UtilityValues == {QInt(SentinelUtility), QInt(-3), QInt(0), QFrac(25, 10), QFrac(56, 10)}

UtilityVectors == UNION {[1..n -> UtilityValues] : n \in 1..MaxLen}

\* temperatures in hundredths: negative, 0, 0.01, the default 0.65, 10000
Temperatures == {-100, 0, 1, 65, 1000000}

InitSoftmax ==
    /\ pc = "caller"
    /\ \E xs \in UtilityVectors, t \in Temperatures :
           last = [xs |-> xs, temperature |-> t]
    /\ i = 0
    /\ logs = <<>>
    /\ cfg = QuantumDiceConfig(65, 12, 27, None)
    /\ stats = NewStats
    /\ rng = 0
    /\ own_rng = 0
    /\ dice_b = None
    /\ start_date = 0
    /\ states = <<>>
    /\ prev_logs = None
    /\ run_no = 0

\* QuantumDice._softmax(xs, temperature): the list it returns
CallSoftmax ==
    /\ i = 0
    /\ logs' = Softmax(last.xs, last.temperature)
    /\ i' = 1
    /\ UNCHANGED <<pc, cfg, start_date, states, stats, rng, last, prev_logs, run_no,
                   dice_b, own_rng>>

SpecSoftmax == InitSoftmax /\ [][CallSoftmax]_vars

\* the entries of xs equal to the largest
TiedForMax(xs) == {k \in 1..Len(xs) : \A j \in 1..Len(xs) : QLe(xs[j], xs[k])}

\* C12: for every non-empty utility vector (the -9999 sentinel included) and
\* every temperature, _softmax returns a vector of the same length whose
\* entries are >= 0 and sum to 1 (here: to PScale, each quotient being cut to
\* a multiple of 1/PScale); at a temperature <= 1e-9 each of the k entries
\* tied for the maximum gets 1/k and every other entry gets 0.
C12_SoftmaxDistribution ==
    i = 1 =>
        LET xs == last.xs
            n  == Len(xs)
            k  == Cardinality(TiedForMax(xs))
        IN  /\ Len(logs) = n
            /\ \A j \in 1..n : logs[j] >= 0
            /\ SumSeq(logs) <= PScale
            /\ SumSeq(logs) > PScale - n
            /\ last.temperature <= 0 =>
                   \A j \in 1..n :
                       logs[j] = IF j \in TiedForMax(xs) THEN PScale \div k ELSE 0

\* at temperature 0, two entries tied for the maximum and the sentinel
\* between them: a half each, nothing for the sentinel
C12_Witness ==
    /\ i = 1
    /\ last.temperature = 0
    /\ last.xs = <<QFrac(25, 10), QInt(SentinelUtility), QFrac(25, 10)>>
    /\ logs = <<PScale \div 2, 0, PScale \div 2>>

\* at the default temperature the sentinel gets 0 and the rest is shared
C12_WitnessWarm ==
    /\ i = 1
    /\ last.temperature = 65
    /\ last.xs = <<QFrac(56, 10), QInt(SentinelUtility), QFrac(25, 10)>>
    /\ logs[2] = 0 /\ logs[3] > 0 /\ logs[1] > logs[3]

-----------------------------------------------------------------------------
(* The draws of a planning run.                                            *)

RECURSIVE CumProb(_, _)
CumProb(probs, k) == IF k = 0 THEN 0 ELSE probs[k] + CumProb(probs, k - 1)

\* C13: each choose call of a run draws first r for the exploration
\* decision; if r < exploration it draws exactly once more and returns the
\* first option of the ranking whose cumulative probability reaches that
\* draw, otherwise it draws no more and returns the top-ranked option. The
\* draws of a day follow those of the day before with none in between, and
\* after n days the run has made between n and 2n draws.
C13_DrawOrder ==
    (pc \in {"loop", "done"} /\ Called) =>
        LET res     == last.res
            g1      == RngNext(last.rng0)
            g2      == RngNext(g1)
            explore == RngValue(g1) * 100 < cfg.exploration * PScale
            reach   == {k \in 1..Len(res.probs) : RngValue(g2) <= CumProb(res.probs, k)}
        IN  /\ explore =>
                   /\ res.draws = <<g1, g2>>
                   /\ res.rng = g2
                   /\ \A k \in reach :
                          (\A j \in reach : k <= j) => res.chosen = res.scored[k].option
            /\ ~explore =>
                   /\ res.draws = <<g1>>
                   /\ res.rng = g1
                   /\ res.chosen = res.scored[1].option
            /\ pc = "loop" => rng = res.rng
            /\ i <= last.ndraws /\ last.ndraws <= 2 * i

\* a run of at least three days with one draw on some days and two on
\* others, whose last day sampled an option below the top of the ranking
C13_Witness ==
    /\ pc = "loop" /\ Called
    /\ i >= 3
    /\ i < last.ndraws /\ last.ndraws < 2 * i
    /\ Len(last.res.draws) = 2
    /\ last.res.chosen # last.res.scored[1].option
    /\ last.res.probs[1] > 0

-----------------------------------------------------------------------------
(* The seven rules of score_option.                                        *)

\* the rules in the order of the claim: its condition, its note, its bonus
\* and its penalty in tenths
Rules(option, state, st, today) ==
    << [fires |-> InjuryGate(option, state),        note |-> NotePain,          bonus |-> 0, penalty |-> 40],
       [fires |-> RunBonus(option, st),             note |-> NoteRunBonus,      bonus |-> 8, penalty |-> 0],
       [fires |-> StrengthBonus(option, st),        note |-> NoteStrengthBonus, bonus |-> 9, penalty |-> 0],
       [fires |-> QualitySpacing(option, st, today), note |-> NoteQuality,      bonus |-> 0, penalty |-> 22],
       [fires |-> LongCap(option, st),              note |-> NoteLong,          bonus |-> 0, penalty |-> 25],
       [fires |-> HighFatigue(option, state),       note |-> NoteFatigue,       bonus |-> 0, penalty |-> 18],
       [fires |-> LowBase(option, st),              note |-> NoteLowBase,       bonus |-> 0, penalty |-> 20] >>

Fired(rules) == SelectSeq(rules, LAMBDA r : r.fires)

RECURSIVE SumTenths(_, _)
SumTenths(rules, field) ==
    IF rules = <<>> THEN 0 ELSE rules[1][field] + SumTenths(Tail(rules), field)

\* C14: for a feasible option the seven rules are applied independently and
\* in the order injury gate, weekly-minimum bonus, strength-minimum bonus,
\* quality spacing, long-run cap, high fatigue, low base: the rationale lists
\* the notes of exactly the rules whose condition holds, in that order, and is
\* the no-adjustments marker exactly when none fires; the utility is the
\* goal-adjusted benefit plus the fired bonuses, minus risk_aversion times
\* the risk, minus the fired penalties.
C14_RulesInOrder ==
    (Scored /\ Feasible(last.option, last.state)) =>
        LET fired == Fired(Rules(last.option, last.state, stats, last.today))
            notes == [k \in 1..Len(fired) |-> fired[k].note]
            sc    == logs[1]
        IN  /\ sc.rationale = (IF fired = <<>> THEN NoNotes ELSE notes)
            /\ (sc.rationale = NoNotes) <=> (fired = <<>>)
            /\ sc.risk = RiskOf(last.option, last.state)
            /\ sc.utility =
                   QSub(QSub(QAdd(GoalBenefit(last.option, last.state),
                                  QFrac(SumTenths(fired, "bonus"), 10)),
                             QScale(sc.risk, cfg.risk_aversion, 20)),
                        QFrac(SumTenths(fired, "penalty"), 10))

\* tempo_45 scored for a day of pain and fatigue right after a quality day,
\* early in the week: five rules fire together
C14_Witness ==
    /\ Scored /\ Feasible(last.option, last.state)
    /\ last.option.id = "tempo_45"
    /\ logs[1].rationale = <<NotePain, NoteRunBonus, NoteQuality, NoteFatigue, NoteLowBase>>

\* an option no rule applies to
C14_WitnessNone ==
    /\ Scored /\ Feasible(last.option, last.state)
    /\ logs[1].rationale = NoNotes

-----------------------------------------------------------------------------
(* The pain 4.5 day.                                                       *)

HasNote(rationale, note) == \E k \in 1..Len(rationale) : rationale[k] = note

\* a feasible long-run option has been scored for a state with pain 4.5,
\* no long run being counted yet
PainScenario ==
    /\ Scored
    /\ Feasible(last.option, last.state)
    /\ is_long(last.option)
    /\ stats.long_runs = 0
    /\ last.state.pain = 9

\* the same evaluation with no pain
NoPain == score_option(cfg, last.option, [last.state EXCEPT !.pain = 0], stats, last.today)

\* C15 as claimed: the pain 4.5 evaluation carries the injury-gate note and
\* not the long-run-cap note, and its utility is below the no-pain utility
\* by at least (risk with pain - risk without) + 4.0, for every
\* risk_aversion > 0.
C15_AsClaimed ==
    PainScenario =>
        /\ HasNote(logs[1].rationale, NotePain)
        /\ ~HasNote(logs[1].rationale, NoteLong)
        /\ QLe(QAdd(QSub(logs[1].risk, NoPain.risk), QInt(4)),
               QSub(NoPain.utility, logs[1].utility))

\* C15 amended: the pain 4.5 evaluation carries the injury-gate note and not
\* the long-run-cap note, and the no-pain utility exceeds its utility by
\* exactly risk_aversion * (risk with pain - risk without) + 4.0.
C15_PainScenario ==
    PainScenario =>
        /\ HasNote(logs[1].rationale, NotePain)
        /\ ~HasNote(logs[1].rationale, NoteLong)
        /\ QSub(NoPain.utility, logs[1].utility) =
               QAdd(QScale(QSub(logs[1].risk, NoPain.risk), cfg.risk_aversion, 20), QInt(4))

\* long_run_110 scored for pain 4.5 on the scales under risk_aversion 0.5:
\* the utility drops by less than the difference of the risks plus 4.0
C15_Witness ==
    /\ PainScenario
    /\ last.option.id = "long_run_110"
    /\ cfg.risk_aversion = 10
    /\ last.state.fatigue = 8 /\ last.state.sleep_hours = 14
    /\ QLt(QSub(NoPain.utility, logs[1].utility),
           QAdd(QSub(logs[1].risk, NoPain.risk), QInt(4)))
    /\ QLt(QInt(4), QSub(NoPain.utility, logs[1].utility))

-----------------------------------------------------------------------------
(* brutal_coach_comment called once on any final statistics.               *)

MaxCount == 3

\* the statistics of a finished week: any counters up to MaxCount, the
\* dates set when the counter is not 0
FinalStats ==
    {[run_days |-> r, strength_days |-> s, quality_days |-> q, long_runs |-> l,
      total_minutes |-> m,
      last_quality_date |-> IF q = 0 THEN None ELSE Some(5),
      last_long_date |-> IF l = 0 THEN None ELSE Some(6),
      last_strength_date |-> IF s = 0 THEN None ELSE Some(4)] :
        r \in 0..MaxCount, s \in 0..MaxCount, q \in 0..MaxCount, l \in 0..MaxCount,
        m \in {0, 420}}

InitComment ==
    /\ pc = "caller"
    /\ stats \in FinalStats
    /\ last = [before |-> stats]
    /\ i = 0
    /\ logs = <<>>
    /\ cfg = QuantumDiceConfig(65, 12, 27, None)
    /\ rng = 0
    /\ own_rng = 0
    /\ dice_b = None
    /\ start_date = 0
    /\ states = <<>>
    /\ prev_logs = None
    /\ run_no = 0

\* brutal_coach_comment(stats): the narrative it returns; stats is only read
CallComment ==
    /\ i = 0
    /\ logs' = brutal_coach_comment(stats)
    /\ i' = 1
    /\ UNCHANGED <<pc, cfg, start_date, states, stats, rng, last, prev_logs, run_no,
                   dice_b, own_rng>>

SpecComment == InitComment /\ [][CallComment]_vars

\* the deficiency statements, in the order of the thresholds
Deficiencies(st) ==
    << [breached |-> st.run_days < 3,      text |-> <<"Bieganie: za malo", st.run_days>>],
       [breached |-> st.strength_days < 2, text |-> <<"Sila: za malo", st.strength_days>>],
       [breached |-> st.quality_days < 1,  text |-> <<"Brak jakosci">>],
       [breached |-> st.long_runs < 1,     text |-> <<"Brak long run">>] >>

Affirmation == <<"W tym mikrocyklu robota wyglada sensownie">>

\* C16: brutal_coach_comment reads the final counters only: the narrative
\* holds one deficiency statement for each breached threshold among
\* run_days < 3, strength_days < 2, quality_days < 1, long_runs < 1, in that
\* order and each on its own; it holds the affirmation exactly when no
\* threshold is breached; it is never empty, and the statistics are left
\* as they were.
C16_CoachComment ==
    i = 1 =>
        LET breached == SelectSeq(Deficiencies(stats), LAMBDA d : d.breached)
            texts    == [k \in 1..Len(breached) |-> breached[k].text]
            listed   == SelectSeq(logs, LAMBDA t :
                            \E k \in 1..4 : t = Deficiencies(stats)[k].text)
        IN  /\ listed = texts
            /\ (\E k \in 1..Len(logs) : logs[k] = Affirmation) <=> (breached = <<>>)
            /\ breached = <<>> => logs = <<Affirmation>>
            /\ logs # <<>>
            /\ stats = last.before
            /\ logs = brutal_coach_comment([stats EXCEPT !.total_minutes = 1,
                                                         !.last_quality_date = None,
                                                         !.last_long_date = None,
                                                         !.last_strength_date = None])

\* running is enough but strength, quality and the long run are all short:
\* three statements, none for running
C16_Witness ==
    /\ i = 1
    /\ stats.run_days = 3 /\ stats.strength_days = 1
    /\ stats.quality_days = 0 /\ stats.long_runs = 0
    /\ Len(logs) = 4
    /\ logs[2] = <<"Sila: za malo", 1>>
    /\ logs[4] = <<"Brak long run">>

\* no threshold breached: the affirmation alone
C16_WitnessFine ==
    /\ i = 1
    /\ stats.run_days = 3 /\ stats.strength_days = 2
    /\ stats.quality_days = 1 /\ stats.long_runs = 1
    /\ logs = <<Affirmation>>

-----------------------------------------------------------------------------
(* The injury gate during a planning run.                                  *)

\* the kinds of session the injury gate is about
Gated(option) == is_quality(option) \/ is_long(option) \/ option.intensity = "hard"

\* C17: on a day whose state has pain >= 4 the option the planner chooses is
\* neither quality nor long nor hard, whenever the catalog holds a feasible
\* option outside those three kinds, under every configuration.
C17_InjuryBan ==
    (pc \in {"loop", "done"} /\ Called /\ last.state.pain >= 2 * 4) =>
        ((\E k \in 1..Len(default_training_options) :
              /\ Feasible(default_training_options[k], last.state)
              /\ ~Gated(default_training_options[k]))
         => ~Gated(last.res.chosen))

-----------------------------------------------------------------------------
(* A day there is time for nothing.                                        *)

\* the last planned day had no feasible option
NothingFeasible ==
    /\ pc \in {"loop", "done"} /\ Called
    /\ \A k \in 1..Len(default_training_options) :
           ~Feasible(default_training_options[k], last.state)

\* C18: on a day where every catalog option is infeasible the planner still
\* commits a session: the day's log carries the -9999 score and the risk 10
\* of the option chosen, a pick without exploration is the first option of
\* the catalog, and the chosen option's minutes and tags are added to the
\* statistics.
C18_NothingFeasible ==
    NothingFeasible =>
        LET log == logs[i]
            o   == last.res.chosen
        IN  /\ log.session_id = o.id
            /\ log.minutes = o.minutes
            /\ log.score = QInt(-9999)
            /\ log.risk = QInt(10)
            /\ Len(last.res.draws) = 1 => o = default_training_options[1]
            /\ stats.total_minutes = last.stats.total_minutes + o.minutes
            /\ stats.run_days =
                   Bump(last.stats.run_days,
                        /\ ("run" \in o.tags \/ o.intensity \in {"easy", "moderate", "hard"})
                        /\ ~is_strength(o) /\ o.intensity # "rest")
            /\ stats.strength_days = Bump(last.stats.strength_days, is_strength(o))
            /\ stats.quality_days = Bump(last.stats.quality_days, is_quality(o))
            /\ stats.long_runs = Bump(last.stats.long_runs, is_long(o))

\* a greedy pick on such a day: rest, 20 minutes, after a day already planned
C18_Witness ==
    /\ NothingFeasible
    /\ i >= 2
    /\ Len(last.res.draws) = 1
    /\ logs[i].session_id = "rest"
    /\ logs[i].score = QInt(-9999)
    /\ stats.total_minutes = last.stats.total_minutes + 20

\* an exploring pick on such a day: a long run is committed and counted
C18_WitnessSampled ==
    /\ NothingFeasible
    /\ Len(last.res.draws) = 2
    /\ is_long(last.res.chosen)
    /\ stats.long_runs = last.stats.long_runs + 1

-----------------------------------------------------------------------------
(* The last-occurrence dates during a planning run.                        *)

\* the planned days (1..i) whose chosen option carries the tag
DaysWith(tag) == {d \in 1..i : tag \in OptionById(logs[d].session_id).tags}

\* the date of the latest of these days, unset when there is none
LastDateOf(tag) ==
    IF DaysWith(tag) = {} THEN None
    ELSE Some(start_date + (CHOOSE d \in DaysWith(tag) : \A e \in DaysWith(tag) : e <= d) - 1)

C19_WitnessTwice ==
    /\ pc = "loop" /\ Called
    /\ Cardinality(DaysWith("quality")) >= 2
    /\ is_quality(last.res.chosen)
    /\ stats.last_quality_date = Some(last.day)

=============================================================================
